---- MODULE Spec2Model ----
(***************************************************************************)
(* KPI aggregation engine of src/src/kpi_aggregation.py.                   *)
(*                                                                         *)
(* A float64 cell is an exact rational [num, den] in lowest terms with     *)
(* den > 0; NaN (pandas' null) is the cell with den = 0.  Route ids and    *)
(* hours are numeric cells, as a column that holds nulls is.  A table is   *)
(* [obj, index, columns, rows]: obj tells the caller's object from a frame *)
(* built by a pandas operation, index lists the names of the index levels, *)
(* columns is the set of column names and rows is the sequence of rows,    *)
(* each a function from the column names to cells.                         *)
(*                                                                         *)
(* An operation yields the set of its possible outcomes.  Two library      *)
(* behaviours are not fixed by the source and are kept open: the frame     *)
(* groupby.apply builds when there is no group (it differs between pandas  *)
(* versions) and the order sort_values gives rows of equal value (the      *)
(* default sort kind is not stable).                                       *)
(***************************************************************************)
EXTENDS Integers, Sequences, FiniteSets, TLC

VARIABLES df, last, prev

vars == <<df, last, prev>>

(* ------------------------------ bounds --------------------------------- *)

MaxRows == 2

MaxTopN == 2

\* the longest series of delays of one route
MaxSeries == 10

(* ------------------------------ float64 cells -------------------------- *)

Abs(n) == IF n < 0 THEN -n ELSE n

RECURSIVE GCD(_, _)
GCD(a, b) == IF b = 0 THEN a ELSE GCD(b, a % b)

NaN == [num |-> 0, den |-> 0]

isna(x) == x.den = 0

Rat(n, d) ==
    LET g == GCD(Abs(n), d)
    IN  [num |-> n \div g, den |-> d \div g]

Flt(n) == [num |-> n, den |-> 1]

\* arithmetic propagates NaN, as float64 arithmetic does
Add(x, y) ==
    IF isna(x) \/ isna(y) THEN NaN
    ELSE Rat(x.num * y.den + y.num * x.den, x.den * y.den)

Sub(x, y) ==
    IF isna(x) \/ isna(y) THEN NaN
    ELSE Rat(x.num * y.den - y.num * x.den, x.den * y.den)

Mul(x, y) ==
    IF isna(x) \/ isna(y) THEN NaN
    ELSE Rat(x.num * y.num, x.den * y.den)

DivInt(x, n) == IF isna(x) THEN NaN ELSE Rat(x.num, x.den * n)

\* comparisons with NaN are false
LE(x, y) == ~isna(x) /\ ~isna(y) /\ x.num * y.den <= y.num * x.den

LT(x, y) == ~isna(x) /\ ~isna(y) /\ x.num * y.den < y.num * x.den

\* clip without its upper bound
clip_no_upper(x, lower, upper) ==
    IF isna(x) THEN NaN
    ELSE IF LT(x, lower) THEN lower
    ELSE x

\* Series.clip(lower, upper): NaN stays NaN
clip(x, lower, upper) ==
    IF isna(x) THEN NaN
    ELSE IF LT(x, lower) THEN lower
    ELSE IF LT(upper, x) THEN upper
    ELSE x

\* Series.fillna(value)
fillna(x, value) == IF isna(x) THEN value ELSE x

\* int(h) for a non-null float: truncation toward zero
int(h) ==
    IF h.num >= 0 THEN h.num \div h.den ELSE -((-h.num) \div h.den)

(* ------------------------------ sequences ------------------------------ *)

RECURSIVE SeqSum(_)
SeqSum(s) == IF s = <<>> THEN Flt(0) ELSE Add(Head(s), SeqSum(Tail(s)))

RECURSIVE Insert(_, _)
Insert(x, s) ==
    IF s = <<>> THEN <<x>>
    ELSE IF LE(x, Head(s)) THEN <<x>> \o s
    ELSE <<Head(s)>> \o Insert(x, Tail(s))

RECURSIVE SortAsc(_)
SortAsc(s) == IF s = <<>> THEN <<>> ELSE Insert(Head(s), SortAsc(Tail(s)))

Range(s) == {s[i] : i \in 1..Len(s)}

(* ------------------------------ tables --------------------------------- *)

KpiColumns == {"avg_delay_min", "p90_delay_min", "on_time_rate", "n_events"}

NoTable == [obj |-> "none", index |-> <<>>, columns |-> {}, rows |-> <<>>]

\* DataFrame.copy(): a new frame with the same columns and rows
copy(t) == [t EXCEPT !.obj = "new"]

\* df[name] = values: assignment of a column, in place
SetColumn(t, name, values) ==
    [t EXCEPT !.columns = @ \cup {name},
              !.rows = [i \in 1..Len(t.rows) |->
                           [c \in t.columns \cup {name} |->
                               IF c = name THEN values[i] ELSE t.rows[i][c]]]]

(* ------------------------------ _group_kpis ---------------------------- *)

\* the interpolation with the upper neighbour added whole instead of the
\* difference of the neighbours
Interpolate_sum(x, k) ==
    IF k % 10 = 0 THEN x[k \div 10 + 1]
    ELSE Add(x[k \div 10 + 1], Mul(Rat(k % 10, 10), x[k \div 10 + 2]))

\* Series.quantile(0.9): linear interpolation between the order statistics
\* around position 0.9 * (n - 1) of the ascending values
Interpolate(x, k) ==
    IF k % 10 = 0 THEN x[k \div 10 + 1]
    ELSE Add(x[k \div 10 + 1],
             Mul(Rat(k % 10, 10), Sub(x[k \div 10 + 2], x[k \div 10 + 1])))

\* the percentile as the order statistic nearest to position 0.9 * (n - 1)
quantile90_nearest(delay) ==
    SortAsc(delay)[(9 * (Len(delay) - 1) + 5) \div 10 + 1]

quantile90(delay) == Interpolate(SortAsc(delay), 9 * (Len(delay) - 1))

NotNa(x) == ~isna(x)

\* Series.dropna()
dropna(s) == SelectSeq(s, NotNa)

\* the statistics with a strict comparison against the threshold
Stats_strict(delay, on_time_threshold_min) ==
    LET OnTime(x) == LT(x, on_time_threshold_min)
    IN  [c \in KpiColumns |->
            CASE c = "avg_delay_min" -> DivInt(SeqSum(delay), Len(delay))
              [] c = "p90_delay_min" -> quantile90(delay)
              [] c = "on_time_rate" ->
                     Rat(Len(SelectSeq(delay, OnTime)), Len(delay))
              [] c = "n_events" -> Flt(Len(delay))]

\* the statistics with the share of late events in place of the on-time ones
Stats_late(delay, on_time_threshold_min) ==
    LET Late(x) == LT(on_time_threshold_min, x)
    IN  [c \in KpiColumns |->
            CASE c = "avg_delay_min" -> DivInt(SeqSum(delay), Len(delay))
              [] c = "p90_delay_min" -> quantile90(delay)
              [] c = "on_time_rate" ->
                     Rat(Len(SelectSeq(delay, Late)), Len(delay))
              [] c = "n_events" -> Flt(Len(delay))]

\* the statistics of a non-empty series of non-null delays (lines 69-80)
Stats(delay, on_time_threshold_min) ==
    LET OnTime(x) == LE(x, on_time_threshold_min)
    IN  [c \in KpiColumns |->
            CASE c = "avg_delay_min" -> DivInt(SeqSum(delay), Len(delay))
              [] c = "p90_delay_min" -> quantile90(delay)
              [] c = "on_time_rate" ->
                     Rat(Len(SelectSeq(delay, OnTime)), Len(delay))
              [] c = "n_events" -> Flt(Len(delay))]

\* the row of a group without a non-null delay (lines 59-67)
EmptyStats == [c \in KpiColumns |-> IF c = "n_events" THEN Flt(0) ELSE NaN]

KpisOf(delay, on_time_threshold_min) ==
    IF delay = <<>> THEN EmptyStats ELSE Stats(delay, on_time_threshold_min)

\* the row of a group with every event counted, the ones without delay too
_group_kpis_count_rows(group, on_time_threshold_min) ==
    IF "delay_minutes" \notin group.columns
    THEN [error |-> "KeyError", value |-> <<>>]
    ELSE [error |-> "none",
          value |-> [KpisOf(dropna([i \in 1..Len(group.rows) |->
                                       group.rows[i]["delay_minutes"]]),
                            on_time_threshold_min)
                        EXCEPT !["n_events"] = Flt(Len(group.rows))]]

_group_kpis(group, on_time_threshold_min) ==
    IF "delay_minutes" \notin group.columns
    THEN [error |-> "KeyError", value |-> <<>>]
    ELSE [error |-> "none",
          value |-> KpisOf(dropna([i \in 1..Len(group.rows) |->
                                      group.rows[i]["delay_minutes"]]),
                           on_time_threshold_min)]

(* ------------------------------ _add_reliability_score ----------------- *)

\* the score without the substitution for an undefined penalty
ScoreOf_no_fillna(avg_delay_min, on_time_rate) ==
    LET delay_penalty == DivInt(clip(avg_delay_min, Flt(0), Flt(10)), 10)
        on_time == fillna(on_time_rate, Flt(0))
    IN  Mul(Flt(100),
            Add(Mul(Rat(6, 10), on_time),
                Mul(Rat(4, 10), Sub(Flt(1), delay_penalty))))

\* the score with an undefined penalty taken as 0
ScoreOf_penalty_zero(avg_delay_min, on_time_rate) ==
    LET delay_penalty == DivInt(clip(avg_delay_min, Flt(0), Flt(10)), 10)
        on_time == fillna(on_time_rate, Flt(0))
    IN  Mul(Flt(100),
            Add(Mul(Rat(6, 10), on_time),
                Mul(Rat(4, 10), Sub(Flt(1), fillna(delay_penalty, Flt(0))))))

ScoreOf(avg_delay_min, on_time_rate) ==
    LET delay_penalty == DivInt(clip(avg_delay_min, Flt(0), Flt(10)), 10)
        on_time == fillna(on_time_rate, Flt(0))
    IN  Mul(Flt(100),
            Add(Mul(Rat(6, 10), on_time),
                Mul(Rat(4, 10), Sub(Flt(1), fillna(delay_penalty, Flt(1))))))

_add_reliability_score(kpis) ==
    IF "avg_delay_min" \notin kpis.columns \/ "on_time_rate" \notin kpis.columns
    THEN [error |-> "KeyError", arg |-> kpis, ret |-> NoTable]
    ELSE
    LET k == copy(kpis)
        score == [i \in 1..Len(k.rows) |->
                     ScoreOf(k.rows[i]["avg_delay_min"], k.rows[i]["on_time_rate"])]
    IN  [error |-> "none", arg |-> kpis,
         ret |-> SetColumn(k, "reliability_score", score)]

(* ------------------------------ _add_time_of_day_bucket ---------------- *)

\* the buckets with their ends included
_bucket_inclusive(h) ==
    IF isna(h) THEN "Unknown"
    ELSE LET h_i == int(h)
         IN  IF 7 <= h_i /\ h_i <= 10 THEN "Morning peak"
             ELSE IF 10 <= h_i /\ h_i <= 16 THEN "Midday"
             ELSE IF 16 <= h_i /\ h_i <= 19 THEN "Evening peak"
             ELSE "Night / off-peak"

_bucket(h) ==
    IF isna(h) THEN "Unknown"
    ELSE LET h_i == int(h)
         IN  IF 7 <= h_i /\ h_i < 10 THEN "Morning peak"
             ELSE IF 10 <= h_i /\ h_i < 16 THEN "Midday"
             ELSE IF 16 <= h_i /\ h_i < 19 THEN "Evening peak"
             ELSE "Night / off-peak"

\* the bucket column assigned to the caller's frame, without the copy
_add_time_of_day_bucket_inplace(d) ==
    IF "hour" \notin d.columns
    THEN [error |-> "KeyError", arg |-> d, ret |-> NoTable]
    ELSE
    LET labels == [i \in 1..Len(d.rows) |-> _bucket(d.rows[i]["hour"])]
    IN  [error |-> "none", arg |-> SetColumn(d, "time_of_day", labels),
         ret |-> SetColumn(d, "time_of_day", labels)]

_add_time_of_day_bucket(d) ==
    IF "hour" \notin d.columns
    THEN [error |-> "KeyError", arg |-> d, ret |-> NoTable]
    ELSE
    LET c == copy(d)
        labels == [i \in 1..Len(c.rows) |-> _bucket(c.rows[i]["hour"])]
    IN  [error |-> "none", arg |-> d, ret |-> SetColumn(c, "time_of_day", labels)]

(* ------------------------------ groupby / apply / reset_index ---------- *)

\* lexicographic order of the time_of_day labels, as sorting strings gives
LabelRank(l) ==
    CASE l = "Evening peak" -> 1
      [] l = "Midday" -> 2
      [] l = "Morning peak" -> 3
      [] l = "Night / off-peak" -> 4
      [] l = "Unknown" -> 5

\* order of two values of key column c; a null key sorts last
ValueLess(c, a, b) ==
    IF c = "time_of_day" THEN LabelRank(a) < LabelRank(b)
    ELSE (~isna(a) /\ isna(b)) \/ LT(a, b)

KeyLess(by, k1, k2) ==
    \E i \in 1..Len(by) :
        /\ \A j \in 1..(i - 1) : k1[by[j]] = k2[by[j]]
        /\ ValueLess(by[i], k1[by[i]], k2[by[i]])

RECURSIVE SortKeys(_, _)
SortKeys(by, S) ==
    IF S = {} THEN <<>>
    ELSE LET m == CHOOSE k \in S : \A j \in S \ {k} : KeyLess(by, k, j)
         IN  <<m>> \o SortKeys(by, S \ {m})

KeyOf(by, row) == [c \in Range(by) |-> row[c]]

\* groupby with the default dropna=True: rows with a null key are left out
groupby_dropna(t, by) ==
    IF \E c \in Range(by) : c \notin t.columns
    THEN [error |-> "KeyError", obj |-> t, by |-> by, keys |-> <<>>]
    ELSE [error |-> "none", obj |-> t, by |-> by,
          keys |-> SortKeys(by, {KeyOf(by, t.rows[i]) :
                                    i \in {k \in 1..Len(t.rows) :
                                              \A c \in Range(by) :
                                                  c = "time_of_day"
                                                      \/ ~isna(t.rows[k][c])}})]

\* DataFrame.groupby(by, dropna=False): the groups in ascending key order,
\* rows with a null key kept as a group of their own
groupby(t, by) ==
    IF \E c \in Range(by) : c \notin t.columns
    THEN [error |-> "KeyError", obj |-> t, by |-> by, keys |-> <<>>]
    ELSE [error |-> "none", obj |-> t, by |-> by,
          keys |-> SortKeys(by, {KeyOf(by, t.rows[i]) : i \in 1..Len(t.rows)})]

\* the columns of the frames handed to the applied function: with the
\* grouping columns (pandas < 3) or without them (pandas >= 3)
GroupColumns(grouped, include_groups) ==
    IF include_groups THEN grouped.obj.columns
    ELSE grouped.obj.columns \ Range(grouped.by)

\* the frame of one group, as handed to the applied function
GroupFrame(grouped, key, include_groups) ==
    LET InGroup(row) == KeyOf(grouped.by, row) = key
    IN  [obj |-> "new", index |-> <<>>,
         columns |-> GroupColumns(grouped, include_groups),
         rows |-> [i \in 1..Len(SelectSeq(grouped.obj.rows, InGroup)) |->
                      [c \in GroupColumns(grouped, include_groups) |->
                          SelectSeq(grouped.obj.rows, InGroup)[i][c]]]]

\* the frame built from the rows the applied function returned, one per group
\* and indexed by the group key; without groups it is an empty frame with the
\* columns of the group frames
Combine(grouped, out, include_groups) ==
    IF \E i \in 1..Len(out) : out[i].error # "none"
    THEN [error |-> "KeyError", ret |-> NoTable]
    ELSE IF Len(out) = 0
    THEN [error |-> "none",
          ret |-> [obj |-> "new", index |-> grouped.by,
                   columns |-> GroupColumns(grouped, include_groups),
                   rows |-> <<>>]]
    ELSE [error |-> "none",
          ret |-> [obj |-> "new", index |-> grouped.by, columns |-> KpiColumns,
                   rows |-> [i \in 1..Len(out) |->
                                [c \in Range(grouped.by) \cup KpiColumns |->
                                    IF c \in KpiColumns THEN out[i].value[c]
                                    ELSE grouped.keys[i][c]]]]]

\* the application with the groups taken in ascending or in descending order
\* of their keys
apply_any_order(grouped, on_time_threshold_min) ==
    {Combine(g,
             [i \in 1..Len(g.keys) |->
                 _group_kpis(GroupFrame(g, g.keys[i], include_groups),
                             on_time_threshold_min)],
             include_groups) :
        include_groups \in IF grouped.keys = <<>> THEN BOOLEAN ELSE {TRUE},
        g \in {grouped,
               [grouped EXCEPT !.keys =
                   [i \in 1..Len(grouped.keys) |->
                       grouped.keys[Len(grouped.keys) + 1 - i]]]}}

\* grouped.apply(_group_kpis, on_time_threshold_min=...): the function is
\* called once per group; without groups it is never called.  The outcomes
\* are those of the pandas versions, which differ for a frame without rows
apply(grouped, on_time_threshold_min) ==
    {Combine(grouped,
             [i \in 1..Len(grouped.keys) |->
                 _group_kpis(GroupFrame(grouped, grouped.keys[i], include_groups),
                             on_time_threshold_min)],
             include_groups) :
        include_groups \in IF grouped.keys = <<>> THEN BOOLEAN ELSE {TRUE}}

\* DataFrame.reset_index(): the index levels become columns
reset_index(t) ==
    IF \E c \in Range(t.index) : c \in t.columns
    THEN [error |-> "ValueError", ret |-> NoTable]
    ELSE [error |-> "none",
          ret |-> [obj |-> "new", index |-> <<>>,
                   columns |-> t.columns \cup Range(t.index), rows |-> t.rows]]

(* ------------------------------ the aggregation operations ------------- *)

\* lines 143-144, 156-157, 167-168: the score is added and the table returned
Scored(d, scored, steps) ==
    [error |-> scored.error, arg |-> d, ret |-> scored.ret,
     steps |-> steps \o <<"groupby", "apply", "reset_index", "score">>]

\* lines 142, 155, 166
Reset(d, reset, steps) ==
    IF reset.error # "none"
    THEN [error |-> reset.error, arg |-> d, ret |-> NoTable,
          steps |-> steps \o <<"groupby", "apply", "reset_index">>]
    ELSE Scored(d, _add_reliability_score(reset.ret), steps)

\* lines 141, 154, 165
Applied(d, applied, steps) ==
    IF applied.error # "none"
    THEN [error |-> applied.error, arg |-> d, ret |-> NoTable,
          steps |-> steps \o <<"groupby", "apply">>]
    ELSE Reset(d, reset_index(applied.ret), steps)

\* lines 140, 153, 164
Grouped(d, grouped, on_time_threshold_min, steps) ==
    IF grouped.error # "none"
    THEN {[error |-> grouped.error, arg |-> d, ret |-> NoTable,
           steps |-> steps \o <<"groupby">>]}
    ELSE {Applied(d, a, steps) : a \in apply(grouped, on_time_threshold_min)}

\* each operation yields the set of its possible outcomes [error, arg, ret,
\* steps]: arg is the caller's table after the call, ret the table returned
\* and steps the stages entered
compute_route_kpis(d, on_time_threshold_min) ==
    IF "route_id" \notin d.columns \/ "delay_minutes" \notin d.columns
    THEN {[error |-> "KeyError", arg |-> d, ret |-> NoTable, steps |-> <<>>]}
    ELSE Grouped(d, groupby(d, <<"route_id">>), on_time_threshold_min, <<>>)

\* the operation without its check of the hour column
compute_route_hour_kpis_unchecked(d, on_time_threshold_min) ==
    Grouped(d, groupby(d, <<"route_id", "hour">>), on_time_threshold_min, <<>>)

compute_route_hour_kpis(d, on_time_threshold_min) ==
    IF "hour" \notin d.columns
    THEN {[error |-> "KeyError", arg |-> d, ret |-> NoTable, steps |-> <<>>]}
    ELSE Grouped(d, groupby(d, <<"route_id", "hour">>), on_time_threshold_min,
                 <<>>)

Bucketed(b, on_time_threshold_min) ==
    IF b.error # "none"
    THEN {[error |-> b.error, arg |-> b.arg, ret |-> NoTable, steps |-> <<>>]}
    ELSE Grouped(b.arg, groupby(b.ret, <<"route_id", "time_of_day">>),
                 on_time_threshold_min, <<"bucket">>)

compute_route_period_kpis(d, on_time_threshold_min) ==
    Bucketed(_add_time_of_day_bucket(d), on_time_threshold_min)

(* ------------------------------ summarize_worst_routes ----------------- *)

Perms(n) == {p \in [1..n -> 1..n] : \A i, j \in 1..n : p[i] = p[j] => i = j}

\* the order with ascending=True
SortsBefore_ascending(by, a, b) ==
    (~isna(a[by]) /\ isna(b[by])) \/ LT(a[by], b[by])

\* row a sorts strictly before row b: descending values, nulls last
SortsBefore(by, a, b) ==
    (~isna(a[by]) /\ isna(b[by])) \/ LT(b[by], a[by])

\* DataFrame.sort_values(by, ascending=False) with the default kind
\* "quicksort", which is not stable: the rows come in descending order, rows
\* with equal values in any order, and the rows with a null value last, in
\* their input order
sort_values(t, by) ==
    {[obj |-> "new", index |-> t.index, columns |-> t.columns,
      rows |-> [i \in 1..Len(t.rows) |-> t.rows[p[i]]]] :
        p \in {q \in Perms(Len(t.rows)) :
                  \A i, j \in 1..Len(t.rows) :
                      i < j =>
                          /\ ~SortsBefore(by, t.rows[q[j]], t.rows[q[i]])
                          /\ isna(t.rows[q[i]][by]) => q[i] < q[j]}}

\* DataFrame.head(n) for n >= 0
head(t, n) ==
    [obj |-> "new", index |-> t.index, columns |-> t.columns,
     rows |-> SubSeq(t.rows, 1, IF n < Len(t.rows) THEN n ELSE Len(t.rows))]

summarize_worst_routes(route_kpis, top_n) ==
    {[error |-> "none", arg |-> route_kpis, ret |-> head(sorted, top_n),
      steps |-> <<"sort_values", "head">>] :
        sorted \in sort_values(route_kpis, "avg_delay_min")}

(* ------------------------------ inputs --------------------------------- *)

EventColumns == {"route_id", "hour", "delay_minutes"}

Delays == {Rat(-1, 1), Rat(1, 2), Rat(2, 1), Rat(15, 1), NaN}

Hours == {Flt(7), NaN}

AllHours == {Flt(h) : h \in 0..23} \cup {NaN}

Thresholds == {Flt(1), Flt(15)}

EventRow(cols, r, h, m) ==
    [c \in cols |-> CASE c = "route_id" -> r
                      [] c = "hour" -> h
                      [] c = "delay_minutes" -> m]

\* events of one hour with every delay on one route and two delays on another,
\* events with and without route, hour and delay, and single events of every
\* hour of the day
DelayRows(cols) ==
    {EventRow(cols, Flt(1), Flt(8), m) : m \in Delays}
        \cup {EventRow(cols, Flt(2), Flt(8), m) : m \in {Rat(-1, 1), Rat(2, 1)}}

HourRows(cols) ==
    {EventRow(cols, r, h, m) : r \in {Flt(1), NaN}, h \in Hours,
                               m \in {Rat(1, 2), NaN}}

DayRows(cols) == {EventRow(cols, Flt(1), h, Rat(1, 2)) : h \in AllHours}

RowLists(cols) ==
    UNION {[1..n -> DelayRows(cols)] \cup [1..n -> HourRows(cols)] :
              n \in 0..MaxRows}
        \cup [1..1 -> DayRows(cols)]

Tables ==
    UNION {{[obj |-> "caller", index |-> <<>>, columns |-> cols, rows |-> rs] :
               rs \in RowLists(cols)} : cols \in SUBSET EventColumns}

\* the i-th of a series of whole delays, evenly or unevenly spaced
SeriesValue(spacing, i) == IF spacing = "even" THEN i ELSE i * i

\* the series of n delays of one route, listed from position shift + 1 on
SeriesRows(spacing, n, shift) ==
    [i \in 1..n |->
        EventRow(EventColumns, Flt(1), Flt(8),
                 Flt(SeriesValue(spacing, ((i + shift - 1) % n) + 1)))]

SeriesTables ==
    UNION {{[obj |-> "caller", index |-> <<>>, columns |-> EventColumns,
             rows |-> SeriesRows(spacing, n, shift)] :
               spacing \in {"even", "uneven"}, shift \in 0..(n - 1)} :
           n \in 1..MaxSeries}

NoCall ==
    [op |-> "none", threshold |-> NaN, top_n |-> 0, error |-> "none",
     arg_before |-> NoTable, arg_after |-> NoTable, ret |-> NoTable,
     steps |-> <<>>]

Call(op, th, n, before, r) ==
    [op |-> op, threshold |-> th, top_n |-> n, error |-> r.error,
     arg_before |-> before, arg_after |-> r.arg, ret |-> r.ret, steps |-> r.steps]

(* ------------------------------ state machine -------------------------- *)

\* df is the caller's event table and last the latest call with its outcome;
\* prev is the call before it when both are calls of compute_route_kpis, and
\* no call otherwise
Repeated(op) == IF last.op = op THEN last ELSE NoCall

Init ==
    /\ df \in Tables
    /\ last = NoCall
    /\ prev = NoCall

ComputeRouteKpis ==
    \E th \in Thresholds :
        \E r \in compute_route_kpis(df, th) :
            /\ df' = r.arg
            /\ last' = Call("compute_route_kpis", th, 0, df, r)
            /\ prev' = Repeated("compute_route_kpis")

ComputeRouteHourKpis ==
    \E th \in Thresholds :
        \E r \in compute_route_hour_kpis(df, th) :
            /\ df' = r.arg
            /\ last' = Call("compute_route_hour_kpis", th, 0, df, r)
            /\ prev' = NoCall

ComputeRoutePeriodKpis ==
    \E th \in Thresholds :
        \E r \in compute_route_period_kpis(df, th) :
            /\ df' = r.arg
            /\ last' = Call("compute_route_period_kpis", th, 0, df, r)
            /\ prev' = NoCall

\* the caller hands the table compute_route_kpis returned to
\* summarize_worst_routes, as main() does
SummarizeWorstRoutes ==
    /\ last.op = "compute_route_kpis"
    /\ last.error = "none"
    /\ \E top_n \in 0..MaxTopN :
        \E r \in summarize_worst_routes([last.ret EXCEPT !.obj = "caller"], top_n) :
            last' = Call("summarize_worst_routes", last.threshold, top_n,
                         [last.ret EXCEPT !.obj = "caller"], r)
    /\ prev' = NoCall
    /\ UNCHANGED df

Next ==
    \/ ComputeRouteKpis
    \/ ComputeRouteHourKpis
    \/ ComputeRoutePeriodKpis
    \/ SummarizeWorstRoutes

Spec == Init /\ [][Next]_vars

\* a caller whose table holds one route with a series of delays
InitSeries ==
    /\ df \in SeriesTables
    /\ last = NoCall
    /\ prev = NoCall

SpecSeries == InitSeries /\ [][Next]_vars

(* ------------------------------ properties ----------------------------- *)

ComputeOps ==
    {"compute_route_kpis", "compute_route_hour_kpis", "compute_route_period_kpis"}

\* the last call was an aggregation that returned a table
Returned == last.op \in ComputeOps /\ last.error = "none"

Out == last.ret.rows

In == last.arg_before.rows

KeyColumns(op) ==
    CASE op = "compute_route_kpis" -> {"route_id"}
      [] op = "compute_route_hour_kpis" -> {"route_id", "hour"}
      [] op = "compute_route_period_kpis" -> {"route_id", "time_of_day"}

\* the bucket table of the specification, on the whole hours 0..23 and null
PeriodLabel(h) ==
    IF h.den = 0 THEN "Unknown"
    ELSE IF h.num \in 7..9 THEN "Morning peak"
    ELSE IF h.num \in 10..15 THEN "Midday"
    ELSE IF h.num \in 16..18 THEN "Evening peak"
    ELSE "Night / off-peak"

\* event e of the input belongs to the group of output row r
Member(e, r) ==
    \A c \in KeyColumns(last.op) :
        IF c = "time_of_day" THEN PeriodLabel(e["hour"]) = r[c] ELSE e[c] = r[c]

\* the positions of the input events in the group of r that have a delay
Observed(r) ==
    {i \in 1..Len(In) : Member(In[i], r) /\ In[i]["delay_minutes"].den # 0}

\* C1: every row returned by the three aggregation operations has a
\* reliability_score that is defined and lies in [0, 100], rows of groups
\* whose delays are all null included.
ScoreInRange ==
    Returned =>
        \A i \in 1..Len(Out) :
            /\ Out[i]["reliability_score"].den > 0
            /\ Out[i]["reliability_score"].num >= 0
            /\ Out[i]["reliability_score"].num
                   <= 100 * Out[i]["reliability_score"].den

ScoreInRangeWitness ==
    /\ Returned
    /\ \E i, j \in 1..Len(Out) :
        /\ Observed(Out[i]) = {}
        /\ Out[i]["reliability_score"] = Flt(0)
        /\ Out[j]["reliability_score"] = Flt(100)

\* the clamped average delay in minutes, 10 when the average is undefined
Clamped(avg) ==
    IF avg.den = 0 THEN Flt(10)
    ELSE IF avg.num <= 0 THEN Flt(0)
    ELSE IF avg.num >= 10 * avg.den THEN Flt(10)
    ELSE avg

OnTimeOrZero(rate) == IF rate.den = 0 THEN Flt(0) ELSE rate

\* score = 100 * (0.6 * on + 0.4 * (1 - c / 10)) = 60 * on + 40 - 4 * c
ScoreIs(score, on, c) ==
    /\ score.den > 0
    /\ score.num * on.den * c.den
           = score.den * (60 * on.num * c.den + 40 * on.den * c.den
                              - 4 * c.num * on.den)

\* C2: the score of every row is 100 * (0.6 * on_time + 0.4 * (1 - penalty))
\* with penalty = clamp(avg_delay_min, 0, 10) / 10, on_time 0 and penalty 1
\* when undefined; so an average <= 0 scores as 0 does, an average >= 10 as
\* 10 does, and an average of 15 with on_time_rate 1 scores 60.
ScoreFormula ==
    Returned =>
        \A i \in 1..Len(Out) :
            LET r == Out[i]
                on == OnTimeOrZero(r["on_time_rate"])
            IN  /\ ScoreIs(r["reliability_score"], on, Clamped(r["avg_delay_min"]))
                /\ (r["avg_delay_min"].den > 0 /\ r["avg_delay_min"].num <= 0)
                       => ScoreIs(r["reliability_score"], on, Flt(0))
                /\ (r["avg_delay_min"].den > 0
                        /\ r["avg_delay_min"].num >= 10 * r["avg_delay_min"].den)
                       => ScoreIs(r["reliability_score"], on, Flt(10))
                /\ (r["avg_delay_min"] = Flt(15) /\ r["on_time_rate"] = Flt(1))
                       => r["reliability_score"] = Flt(60)

ScoreFormulaWitness ==
    /\ Returned
    /\ \E i, j \in 1..Len(Out) :
        /\ Out[i]["avg_delay_min"] = Flt(15)
        /\ Out[i]["on_time_rate"] = Flt(1)
        /\ Out[i]["reliability_score"] = Flt(60)
        /\ Out[j]["avg_delay_min"] = Flt(-1)
        /\ Out[j]["reliability_score"] = Flt(100)

\* the columns an operation needs in its input
Required(op) ==
    CASE op = "compute_route_kpis" -> {"route_id", "delay_minutes"}
      [] op = "compute_route_hour_kpis" -> {"route_id", "hour", "delay_minutes"}
      [] op = "compute_route_period_kpis" -> {"route_id", "hour", "delay_minutes"}

\* C3: a group without a non-null delay does not make the aggregation raise:
\* its row has avg_delay_min, p90_delay_min and on_time_rate undefined,
\* n_events = 0 and reliability_score = 0.
EmptyGroupRow ==
    /\ (/\ last.op \in ComputeOps
        /\ Required(last.op) \subseteq last.arg_before.columns
        /\ In # <<>>) => last.error = "none"
    /\ Returned =>
        \A i \in 1..Len(Out) :
            Observed(Out[i]) = {} =>
                /\ Out[i]["avg_delay_min"].den = 0
                /\ Out[i]["p90_delay_min"].den = 0
                /\ Out[i]["on_time_rate"].den = 0
                /\ Out[i]["n_events"] = Flt(0)
                /\ Out[i]["reliability_score"] = Flt(0)

EmptyGroupRowWitness ==
    /\ Returned
    /\ Len(Out) = 2
    /\ \E i \in 1..Len(Out) :
        /\ Observed(Out[i]) = {}
        /\ \E k \in 1..Len(In) : Member(In[k], Out[i])
        /\ Out[i]["n_events"] = Flt(0)

\* twice the delay of input event i, a whole number for the delays drawn
Halves(i) ==
    (2 * In[i]["delay_minutes"].num) \div In[i]["delay_minutes"].den

RECURSIVE SumHalves(_)
SumHalves(S) ==
    IF S = {} THEN 0
    ELSE LET i == CHOOSE k \in S : TRUE
         IN  Halves(i) + SumHalves(S \ {i})

\* C4: for a group with at least one non-null delay, n_events is the number
\* of non-null delays, avg_delay_min their arithmetic mean and on_time_rate
\* the fraction of them that are <= the threshold (equality counts as on
\* time); null delays contribute to none of the three.
GroupStatistics ==
    Returned =>
        \A i \in 1..Len(Out) :
            LET r == Out[i]
                obs == Observed(r)
                n == Cardinality(obs)
                ontime == {k \in obs :
                              In[k]["delay_minutes"].num * last.threshold.den
                                  <= last.threshold.num * In[k]["delay_minutes"].den}
            IN  n > 0 =>
                    /\ r["n_events"] = Flt(n)
                    /\ r["avg_delay_min"].den > 0
                    /\ r["avg_delay_min"].num * 2 * n
                           = r["avg_delay_min"].den * SumHalves(obs)
                    /\ r["on_time_rate"].den > 0
                    /\ r["on_time_rate"].num * n
                           = r["on_time_rate"].den * Cardinality(ontime)

\* delays [0.5, 2.0] with threshold 1.0: avg 1.25, on_time_rate 0.5, n_events 2
GroupStatisticsWitness ==
    /\ Returned
    /\ last.threshold = Flt(1)
    /\ Len(In) = 2
    /\ In[1]["delay_minutes"] = Rat(1, 2)
    /\ In[2]["delay_minutes"] = Flt(2)
    /\ Len(Out) = 1
    /\ Out[1]["avg_delay_min"] = Rat(5, 4)
    /\ Out[1]["on_time_rate"] = Rat(1, 2)
    /\ Out[1]["n_events"] = Flt(2)

\* C5: compute_route_kpis and compute_route_hour_kpis fail with a KeyError
\* and return no table whenever the input lacks the route_id column or the
\* delay_minutes column.
MissingRouteOrDelayIsKeyError ==
    (/\ last.op \in {"compute_route_kpis", "compute_route_hour_kpis"}
     /\ ~({"route_id", "delay_minutes"} \subseteq last.arg_before.columns))
        => (last.error = "KeyError" /\ last.ret = NoTable)

\* C6: compute_route_hour_kpis and compute_route_period_kpis fail with a
\* KeyError before any grouping or statistic is computed whenever the input
\* lacks the hour column, and return no table.
MissingHourFailsFirst ==
    (/\ last.op \in {"compute_route_hour_kpis", "compute_route_period_kpis"}
     /\ "hour" \notin last.arg_before.columns)
        => (last.error = "KeyError" /\ last.ret = NoTable /\ last.steps = <<>>)

MissingHourFailsFirstWitness ==
    /\ last.op = "compute_route_period_kpis"
    /\ last.arg_before.columns = {"route_id", "delay_minutes"}
    /\ Len(In) = 2
    /\ last.error = "KeyError"

\* C7: the output of each aggregation has exactly one row per distinct group
\* key of the input and no other row: route_id, (route_id, hour) or
\* (route_id, bucket(hour)), a null route_id and a null hour being groups of
\* their own and a null hour carrying the label "Unknown" in the period table.
OneRowPerGroup ==
    Returned =>
        /\ KeyColumns(last.op) \subseteq last.ret.columns
        /\ \A k \in 1..Len(In) : \E i \in 1..Len(Out) : Member(In[k], Out[i])
        /\ \A i \in 1..Len(Out) : \E k \in 1..Len(In) : Member(In[k], Out[i])
        /\ \A i, j \in 1..Len(Out) :
               (\A c \in KeyColumns(last.op) : Out[i][c] = Out[j][c]) => i = j

OneRowPerGroupWitness ==
    /\ Returned
    /\ last.op = "compute_route_period_kpis"
    /\ Len(Out) = 2
    /\ \E i \in 1..Len(Out) :
        /\ Out[i]["route_id"] = NaN
        /\ Out[i]["time_of_day"] = "Unknown"

\* C8: the bucketer is total on the hours 0..23 and on null and gives one
\* label: "Morning peak" for 7..9, "Midday" for 10..15, "Evening peak" for
\* 16..18, "Night / off-peak" for 0..6 and 19..23, "Unknown" for null only.
BucketLabels ==
    (Returned /\ last.op = "compute_route_period_kpis") =>
        /\ \A k \in 1..Len(In) :
               \E i \in 1..Len(Out) : Out[i]["time_of_day"] = PeriodLabel(In[k]["hour"])
        /\ \A i \in 1..Len(Out) :
               /\ Out[i]["time_of_day"] \in
                      {"Morning peak", "Midday", "Evening peak",
                       "Night / off-peak", "Unknown"}
               /\ \E k \in 1..Len(In) :
                      Out[i]["time_of_day"] = PeriodLabel(In[k]["hour"])
               /\ Out[i]["time_of_day"] = "Unknown" =>
                      \E k \in 1..Len(In) : In[k]["hour"] = NaN

BucketLabelsWitness ==
    /\ Returned
    /\ last.op = "compute_route_period_kpis"
    /\ Len(In) = 1
    /\ In[1]["hour"] = Flt(19)
    /\ Out[1]["time_of_day"] = "Night / off-peak"

\* C9: none of the four operations changes the table the caller passed:
\* after the call, successful or failed, it has the same columns and the same
\* rows in the same order, and the table returned is a new structure.
InputUnchanged ==
    last.op # "none" =>
        /\ last.arg_after = last.arg_before
        /\ last.op \in ComputeOps => df = last.arg_before
        /\ last.error = "none" => last.ret.obj # last.arg_before.obj

InputUnchangedWitness ==
    /\ Returned
    /\ last.op = "compute_route_period_kpis"
    /\ Len(In) = 2
    /\ "time_of_day" \in last.ret.columns
    /\ "reliability_score" \in last.ret.columns
    /\ df.columns = EventColumns

\* row a has a larger avg_delay_min than row b, an undefined one being the
\* smallest
Worse(a, b) ==
    \/ a["avg_delay_min"].den # 0 /\ b["avg_delay_min"].den = 0
    \/ /\ a["avg_delay_min"].den # 0
       /\ b["avg_delay_min"].den # 0
       /\ a["avg_delay_min"].num * b["avg_delay_min"].den
              > b["avg_delay_min"].num * a["avg_delay_min"].den

\* p arranges the rows of the input by avg_delay_min descending
Descending(p) ==
    \A i, j \in 1..Len(In) : i < j => ~Worse(In[p[j]], In[p[i]])

\* p keeps rows of equal avg_delay_min in their input order
Stable(p) ==
    \A i, j \in 1..Len(In) :
        (i < j /\ ~Worse(In[p[i]], In[p[j]])) => p[i] < p[j]

\* the table returned holds the first top_n rows of arrangement p
TopOf(p) ==
    /\ Len(Out) = (IF last.top_n < Len(In) THEN last.top_n ELSE Len(In))
    /\ \A i \in 1..Len(Out) : Out[i] = In[p[i]]

\* C10 as stated: summarize_worst_routes returns the top_n rows (all rows if
\* there are fewer) by avg_delay_min descending, rows of equal avg_delay_min
\* in their input order.
WorstRoutesStable ==
    last.op = "summarize_worst_routes" =>
        \E p \in Perms(Len(In)) : Descending(p) /\ Stable(p) /\ TopOf(p)

\* C10 as amended: summarize_worst_routes returns the first top_n rows (all
\* rows if there are fewer) of the table arranged by avg_delay_min
\* descending, rows with an undefined avg_delay_min last; the order of rows
\* of equal avg_delay_min is not fixed.
WorstRoutesDescending ==
    last.op = "summarize_worst_routes" =>
        /\ last.error = "none"
        /\ last.ret.columns = last.arg_before.columns
        /\ \E p \in Perms(Len(In)) : Descending(p) /\ TopOf(p)

WorstRoutesDescendingWitness ==
    /\ last.op = "summarize_worst_routes"
    /\ last.top_n = 1
    /\ Len(In) = 2
    /\ In[1]["avg_delay_min"] = In[2]["avg_delay_min"]
    /\ In[1]["avg_delay_min"].den # 0
    /\ Out = <<In[2]>>

\* the latest two calls were the same aggregation of the same table and both
\* returned a table
Twice ==
    /\ Returned
    /\ prev.op = last.op
    /\ prev.error = "none"
    /\ prev.arg_before = last.arg_before

\* the row of the earlier call for the group of row r of the latest call
Earlier(r) ==
    {q \in Range(prev.ret.rows) : \A c \in KeyColumns(last.op) : q[c] = r[c]}

\* C11: for a group with at least one non-null delay and thresholds t1 <= t2,
\* the on_time_rate under t1 is <= the on_time_rate under t2, while
\* avg_delay_min, p90_delay_min and n_events are the same under both.
OnTimeRateMonotone ==
    (/\ Twice
     /\ prev.threshold.num * last.threshold.den
            <= last.threshold.num * prev.threshold.den) =>
        \A i \in 1..Len(Out) :
            Observed(Out[i]) # {} =>
                /\ Earlier(Out[i]) # {}
                /\ \A q \in Earlier(Out[i]) :
                    /\ q["on_time_rate"].den > 0
                    /\ Out[i]["on_time_rate"].den > 0
                    /\ q["on_time_rate"].num * Out[i]["on_time_rate"].den
                           <= Out[i]["on_time_rate"].num * q["on_time_rate"].den
                    /\ q["avg_delay_min"] = Out[i]["avg_delay_min"]
                    /\ q["p90_delay_min"] = Out[i]["p90_delay_min"]
                    /\ q["n_events"] = Out[i]["n_events"]

\* delays [0.5, 2.0]: on_time_rate 0.5 under threshold 1, 1 under threshold 15
OnTimeRateMonotoneWitness ==
    /\ Twice
    /\ prev.threshold = Flt(1)
    /\ last.threshold = Flt(15)
    /\ Len(Out) = 1
    /\ Cardinality(Observed(Out[1])) = 2
    /\ prev.ret.rows[1]["on_time_rate"] = Rat(1, 2)
    /\ Out[1]["on_time_rate"] = Flt(1)

\* a <= b for two non-null values
AtMost(a, b) == a.num * b.den <= b.num * a.den

\* the delay of input event i
Delay(i) == In[i]["delay_minutes"]

\* C12: in every returned row of a group with at least one non-null delay,
\* p90_delay_min is not below the smallest and not above the largest of the
\* group's non-null delays; with a single non-null delay it equals that delay.
PercentileWithinRange ==
    Returned =>
        \A i \in 1..Len(Out) :
            Observed(Out[i]) # {} =>
                /\ Out[i]["p90_delay_min"].den > 0
                /\ \E j \in Observed(Out[i]) :
                       AtMost(Delay(j), Out[i]["p90_delay_min"])
                /\ \E j \in Observed(Out[i]) :
                       AtMost(Out[i]["p90_delay_min"], Delay(j))
                /\ Cardinality(Observed(Out[i])) = 1 =>
                       \A j \in Observed(Out[i]) :
                           Out[i]["p90_delay_min"] = Delay(j)

\* delays 0.5 and 2.0 in one group: the percentile 1.85 lies strictly between
PercentileWithinRangeWitness ==
    /\ Returned
    /\ Len(Out) = 1
    /\ Cardinality(Observed(Out[1])) = 2
    /\ \E j \in Observed(Out[1]) : Delay(j) = Rat(1, 2)
    /\ \E j \in Observed(Out[1]) : Delay(j) = Flt(2)
    /\ Out[1]["p90_delay_min"] = Rat(37, 20)

\* the number of events of S with a delay below, and not above, that of j
Below(S, j) == Cardinality({i \in S : ~AtMost(Delay(j), Delay(i))})

NotAbove(S, j) == Cardinality({i \in S : AtMost(Delay(i), Delay(j))})

\* the delay at position k, counted from 0, of the ascending delays of S
OrderStatistic(S, k) ==
    Delay(CHOOSE j \in S : Below(S, j) <= k /\ k < NotAbove(S, j))

\* p = lo + (tenths / 10) * (hi - lo), on the numerators and denominators
InterpolatesBetween(p, lo, hi, tenths) ==
    /\ p.den > 0
    /\ 10 * p.num * lo.den * hi.den
           = p.den * (10 * lo.num * hi.den
                         + tenths * (hi.num * lo.den - lo.num * hi.den))

\* C13: p90_delay_min of a group with the n non-null delays x[0] <= ... <=
\* x[n-1] is the linear interpolation x[f] + (k - f) * (x[c] - x[f]) at
\* k = 0.9 * (n - 1) with f = floor(k) and c = ceil(k); for the delays
\* 1, 2, ..., 10 it is 9.1.
PercentileInterpolates ==
    Returned =>
        \A i \in 1..Len(Out) :
            Observed(Out[i]) # {} =>
                /\ InterpolatesBetween(
                       Out[i]["p90_delay_min"],
                       OrderStatistic(Observed(Out[i]),
                           (9 * (Cardinality(Observed(Out[i])) - 1)) \div 10),
                       OrderStatistic(Observed(Out[i]),
                           (9 * (Cardinality(Observed(Out[i])) - 1) + 9) \div 10),
                       (9 * (Cardinality(Observed(Out[i])) - 1)) % 10)
                /\ {Delay(j) : j \in Observed(Out[i])} = {Flt(v) : v \in 1..10}
                       => Out[i]["p90_delay_min"] = Rat(91, 10)

\* the delays 1, 2, ..., 10 of one route, not in ascending order
PercentileInterpolatesWitness ==
    /\ Returned
    /\ Len(In) = 10
    /\ Delay(1) = Flt(4)
    /\ Len(Out) = 1
    /\ {Delay(j) : j \in Observed(Out[1])} = {Flt(v) : v \in 1..10}
    /\ Out[1]["p90_delay_min"] = Rat(91, 10)

RECURSIVE TotalEvents(_)
TotalEvents(n) ==
    IF n = 0 THEN 0 ELSE Out[n]["n_events"].num + TotalEvents(n - 1)

\* the positions of the input events that have a delay
WithDelay == {j \in 1..Len(In) : Delay(j).den # 0}

\* C15: for each of the three aggregations the n_events of the returned rows
\* add up to the number of input events with a non-null delay_minutes: each
\* such event is counted in exactly one group, a null route_id or hour
\* notwithstanding, and an event without delay in none.
EventsCountedOnce ==
    Returned =>
        /\ \A i \in 1..Len(Out) : Out[i]["n_events"].den = 1
        /\ TotalEvents(Len(Out)) = Cardinality(WithDelay)
        /\ \A j \in WithDelay :
               Cardinality({i \in 1..Len(Out) : Member(In[j], Out[i])}) = 1
        /\ \A i \in 1..Len(Out) :
               Out[i]["n_events"].num = Cardinality(Observed(Out[i]))

\* an event without route with a delay and an event of route 1 without delay:
\* two groups, one event counted
EventsCountedOnceWitness ==
    /\ Returned
    /\ Len(In) = 2
    /\ In[1]["route_id"] = NaN
    /\ Delay(1) = Rat(1, 2)
    /\ In[2]["route_id"] = Flt(1)
    /\ Delay(2) = NaN
    /\ Len(Out) = 2
    /\ TotalEvents(Len(Out)) = 1

====
